---- MODULE Spec2Model ----
(***************************************************************************)
(* Pool<OBJ, NUM_OBJS> of src/src/Pool.h: a fixed-capacity object pool     *)
(* that tracks its instances in two std::array<OBJ*, NUM_OBJS>,            *)
(* _available and _inUse.  One step of the model is one call made by the   *)
(* single-threaded caller: acquire(), release(obj) or the destructor.      *)
(*                                                                         *)
(* Pointers are integers: NULL is nullptr, 1..NUM_OBJS are the objects     *)
(* allocated by the constructor (object i is the one stored in slot i),    *)
(* and Foreign is an address the pool never allocated.  Array slots are    *)
(* numbered from 1; End(arr) is the past-the-end iterator.                 *)
(***************************************************************************)
EXTENDS Integers, Sequences, FiniteSets

\* Largest capacity NUM_OBJS that is explored.
MaxObjs == 3

\* Largest number of acquire calls made on the two pools run side by side.
MaxPairCalls == 5

\* Largest capacity of the pool that threads call into.
MaxRaceObjs == 2

\* Largest number of calls that one thread makes.
MaxThreadCalls == 3

\* nullptr
NULL == 0

VARIABLES
  NUM_OBJS,     \* the template argument: capacity of the pool
  _available,   \* std::array<OBJ*, NUM_OBJS> _available
  _inUse,       \* std::array<OBJ*, NUM_OBJS> _inUse
  pc,           \* "live", "destroyed" (after ~Pool) or "crashed" (UB aborted the run)
  deleted,      \* per object: how many times ~Pool has deleted it
  op,           \* the call made last: what it was given, returned and did
                \*   (full: no object was available when it was made; again: it
                \*   is a release of the pointer that the call before it released)
  held,         \* per object: loans the caller holds (acquired, not yet given to release)
  resets,       \* per object: reset() invocations since acquire last returned it
  released,     \* the releases that found their object among the calls that
                \*   follow the last acquire call before the last call
  onlyAcq,      \* number of acquire calls so far while no release call was made, else -1
  hist,         \* the calls so far, while they follow Scenario
  thr,          \* per thread: the statement it is at in its call, its locals
                \*   (iter, mem, obj) and the objects it holds
  lock,         \* the caller's mutex: "none" when the callers use no mutex,
                \*   else "free" or the thread that holds it
  ms_available, \* std::multiset<OBJ*> _available of MultisetPool.h, in its order
  ms_inUse,     \* std::multiset<OBJ*> _inUse of MultisetPool.h, in its order
  handles,      \* per acquire call made on both pools: what each pool returned
                \*   (a: the array pool, m: the multiset pool) and whether the
                \*   loan is still out
  clean         \* no release so far was given an instance that one of the pools
                \*   has lent out again since the loan it comes from

vars == <<NUM_OBJS, _available, _inUse, pc, deleted, op, held, resets, released,
          onlyAcq, hist, thr, lock, ms_available, ms_inUse, handles, clean>>

\* The variables of the multiset pool run side by side with the array pool.
pairVars == <<ms_available, ms_inUse, handles, clean>>

\* The variables of the calls made stepwise by threads.
threadVars == <<thr, lock>>

\* The variables of the bookkeeping of the calls of the single caller.
callVars == <<deleted, op, held, resets, released, onlyAcq, hist>>

\* The threads that call into one pool.
Threads == {"t1", "t2"}

\* A thread that is in no call, has made none and holds nothing.
Idle == [pc |-> "idle", iter |-> 0, mem |-> 0, obj |-> 0, has |-> {}, calls |-> 0]

\* The objects the constructor allocates.
Objects == 1..NUM_OBJS

\* An address that was not allocated by this pool.
Foreign == NUM_OBJS + 1

\* What a caller can pass to release.
Pointers == {NULL} \cup Objects \cup {Foreign}

\* std::end(arr)
End(arr) == Len(arr) + 1

\* std::find(std::begin(arr), std::end(arr), v)
Find(arr, v) ==
  IF \E i \in 1..Len(arr) : arr[i] = v
  THEN CHOOSE i \in 1..Len(arr) : arr[i] = v /\ \A j \in 1..(i - 1) : arr[j] # v
  ELSE End(arr)

\* Mutant: the scan starts one slot too late.
FindNonNull_skipFirst(arr) ==
  IF \E i \in 2..Len(arr) : arr[i] # NULL
  THEN CHOOSE i \in 2..Len(arr) : arr[i] # NULL /\ \A j \in 2..(i - 1) : arr[j] = NULL
  ELSE End(arr)

\* Mutant: the scan runs from the back of the array.
FindNonNull_last(arr) ==
  IF \E i \in 1..Len(arr) : arr[i] # NULL
  THEN CHOOSE i \in 1..Len(arr) : arr[i] # NULL /\ \A j \in (i + 1)..Len(arr) : arr[j] = NULL
  ELSE End(arr)

\* std::find_if(std::begin(arr), std::end(arr), [](OBJ* mem){return (mem != nullptr);})
FindNonNull(arr) ==
  IF \E i \in 1..Len(arr) : arr[i] # NULL
  THEN CHOOSE i \in 1..Len(arr) : arr[i] # NULL /\ \A j \in 1..(i - 1) : arr[j] = NULL
  ELSE End(arr)

\* Number of slots of arr that hold v.
Count(arr, v) == Cardinality({i \in 1..Len(arr) : arr[i] = v})

\* Number of non-empty slots of arr.
NumHeld(arr) == Cardinality({i \in 1..Len(arr) : arr[i] # NULL})

\* The pool tracks x as lent out.
Lent(x) == x \in Objects /\ Count(_inUse, x) > 0

\* The smaller and the larger of two numbers.
Min(a, b) == IF a < b THEN a ELSE b

Max(a, b) == IF a > b THEN a ELSE b

\* Mutant: the slot of _available is not cleared (line 52 left out).
acquire_noClear(av, iu) ==
  LET iter == FindNonNull(av) IN
  IF iter = End(av)
  THEN [available |-> av, inUse |-> iu, ret |-> NULL, reset |-> <<>>, ub |-> {}]
  ELSE LET mem  == av[iter]
           iter2 == Find(iu, NULL)
       IN  [available |-> av,
            inUse     |-> IF iter2 # End(iu) THEN [iu EXCEPT ![iter2] = mem] ELSE iu,
            ret       |-> mem,
            reset     |-> <<>>,
            ub        |-> IF iter2 = End(iu) THEN {"end_write"} ELSE {}]

\* Mutant: the object is reset when it is handed out.
acquire_resets(av, iu) ==
  LET iter == FindNonNull(av) IN
  IF iter = End(av)
  THEN [available |-> av, inUse |-> iu, ret |-> NULL, reset |-> <<>>, ub |-> {}]
  ELSE LET mem  == av[iter]
           av1  == [av EXCEPT ![iter] = NULL]
           iter2 == Find(iu, NULL)
       IN  [available |-> av1,
            inUse     |-> IF iter2 # End(iu) THEN [iu EXCEPT ![iter2] = mem] ELSE iu,
            ret       |-> mem,
            reset     |-> <<mem>>,
            ub        |-> IF iter2 = End(iu) THEN {"end_write"} ELSE {}]

\* OBJ* Pool::acquire(), as a function of the two arrays.  The result holds the
\* arrays after the call, the pointer returned, the pointers reset() was invoked
\* on, and the undefined behaviour met: "end_write" is the store of line 62
\* through std::end(_inUse), which lands outside both arrays.
acquire_impl(av, iu) ==
  LET iter == FindNonNull(av) IN
  IF iter = End(av)
  THEN [available |-> av, inUse |-> iu, ret |-> NULL, reset |-> <<>>, ub |-> {}]
  ELSE LET mem  == av[iter]
           av1  == [av EXCEPT ![iter] = NULL]
           iter2 == Find(iu, NULL)
       IN  [available |-> av1,
            inUse     |-> IF iter2 # End(iu) THEN [iu EXCEPT ![iter2] = mem] ELSE iu,
            ret       |-> mem,
            reset     |-> <<>>,
            ub        |-> IF iter2 = End(iu) THEN {"end_write"} ELSE {}]

\* Mutant: the released object is not put back into _available (line 107 left out).
release_noStore(av, iu, obj) ==
  LET iter == Find(iu, obj) IN
  IF iter = End(iu)
  THEN [available |-> av, inUse |-> iu, hit |-> FALSE, reset |-> <<>>, ub |-> {}]
  ELSE LET iu1  == [iu EXCEPT ![iter] = NULL]
       IN  [available |-> av,
            inUse     |-> iu1,
            hit       |-> TRUE,
            reset     |-> <<obj>>,
            ub        |-> IF obj = NULL THEN {"null_reset"} ELSE {}]

\* Mutant: the slot of _inUse is not cleared (line 99 left out).
release_noClear(av, iu, obj) ==
  LET iter == Find(iu, obj) IN
  IF iter = End(iu)
  THEN [available |-> av, inUse |-> iu, hit |-> FALSE, reset |-> <<>>, ub |-> {}]
  ELSE LET mem  == iu[iter]
           iter2 == Find(av, NULL)
       IN  [available |-> IF iter2 # End(av) THEN [av EXCEPT ![iter2] = mem] ELSE av,
            inUse     |-> IF iter2 # End(av) THEN iu ELSE [iu EXCEPT ![1] = mem],
            hit       |-> TRUE,
            reset     |-> <<obj>>,
            ub        |-> (IF obj = NULL THEN {"null_reset"} ELSE {})
                          \cup (IF iter2 = End(av) THEN {"end_write"} ELSE {})]

\* void Pool::release(OBJ* obj), as a function of the two arrays and the
\* argument.  hit: std::find of line 78 found obj in _inUse.  The undefined
\* behaviour met: "null_reset" is obj->reset() of line 92 through a null obj;
\* "end_write" is the store of line 107 through std::end(_available), which is
\* the address of _inUse[0], the member declared next (lines 127, 130).
release_impl(av, iu, obj) ==
  LET iter == Find(iu, obj) IN
  IF iter = End(iu)
  THEN [available |-> av, inUse |-> iu, hit |-> FALSE, reset |-> <<>>, ub |-> {}]
  ELSE LET mem  == iu[iter]
           iu1  == [iu EXCEPT ![iter] = NULL]
           iter2 == Find(av, NULL)
       IN  [available |-> IF iter2 # End(av) THEN [av EXCEPT ![iter2] = mem] ELSE av,
            inUse     |-> IF iter2 # End(av) THEN iu1 ELSE [iu1 EXCEPT ![1] = mem],
            hit       |-> TRUE,
            reset     |-> <<obj>>,
            ub        |-> (IF obj = NULL THEN {"null_reset"} ELSE {})
                          \cup (IF iter2 = End(av) THEN {"end_write"} ELSE {})]

\* Mutant: only the objects in _available are deleted (lines 119-120 left out).
dtor_availableOnly(av, iu) ==
  [r \in Objects |-> Count(av, r)]

\* Pool::~Pool(): std::default_delete on every slot of both arrays; deleting a
\* null pointer does nothing.  The result counts the deletions of each object.
dtor_impl(av, iu) ==
  [r \in Objects |-> Count(av, r) + Count(iu, r)]

\* The calls of the scenario: acquire, acquire, acquire, release of the first
\* acquired, acquire, release of the second acquired, acquire.  of: the call
\* whose result is released.
Scenario ==
  << [name |-> "acquire", of |-> 0], [name |-> "acquire", of |-> 0],
     [name |-> "acquire", of |-> 0], [name |-> "release", of |-> 1],
     [name |-> "acquire", of |-> 0], [name |-> "release", of |-> 2],
     [name |-> "acquire", of |-> 0] >>

\* hist once the calls have left the scenario.
Off == << [name |-> "off", arg |-> NULL, ret |-> NULL] >>

\* hist after one more call.
Follow(call) ==
  IF /\ hist # Off
     /\ Len(hist) < Len(Scenario)
     /\ Scenario[Len(hist) + 1].name = call.name
     /\ call.name = "release" => call.arg = hist[Scenario[Len(hist) + 1].of].ret
  THEN Append(hist, call)
  ELSE Off

\* resets after reset() was invoked on the pointers of the sequence rs.
AddResets(f, rs) ==
  [r \in Objects |-> Min(2, f[r] + Cardinality({k \in 1..Len(rs) : rs[k] = r}))]

\* released, once the calls before the last acquire call are forgotten.
Recent == IF op.name = "release" THEN released ELSE <<>>

\* Pool::Pool(): the state after construction.
Init ==
  /\ NUM_OBJS \in 0..MaxObjs
  /\ _available = [i \in 1..NUM_OBJS |-> i]
  /\ _inUse = [i \in 1..NUM_OBJS |-> NULL]
  /\ pc = "live"
  /\ deleted = [r \in Objects |-> 0]
  /\ op = [name |-> "Pool", arg |-> NULL, ret |-> NULL, hit |-> FALSE,
           full |-> FALSE, again |-> FALSE, reset |-> <<>>, ub |-> {}]
  /\ held = [r \in Objects |-> 0]
  /\ resets = [r \in Objects |-> 0]
  /\ released = <<>>
  /\ onlyAcq = 0
  /\ hist = <<>>
  /\ thr = [t \in Threads |-> Idle]
  /\ lock = "none"
  /\ ms_available = <<>>
  /\ ms_inUse = <<>>
  /\ handles = <<>>
  /\ clean = TRUE

\* A call of acquire().  After undefined behaviour the run either goes on with
\* the memory as written or is aborted.
acquire ==
  /\ pc = "live"
  /\ LET res  == acquire_impl(_available, _inUse)
         call == [name |-> "acquire", arg |-> NULL, ret |-> res.ret, hit |-> FALSE,
                  full |-> NumHeld(_available) = 0, again |-> FALSE,
                  reset |-> res.reset, ub |-> res.ub]
     IN  \E outcome \in (IF res.ub = {} THEN {"live"} ELSE {"live", "crashed"}) :
           /\ pc' = outcome
           /\ IF outcome = "crashed"
              THEN /\ op' = [call EXCEPT !.ret = NULL]
                   /\ UNCHANGED <<_available, _inUse, held, resets, released,
                                  onlyAcq, hist>>
              ELSE /\ op' = call
                   /\ _available' = res.available
                   /\ _inUse' = res.inUse
                   /\ held' = IF res.ret \in Objects
                              THEN [held EXCEPT ![res.ret] = Min(2, @ + 1)]
                              ELSE held
                   /\ resets' = AddResets(IF res.ret \in Objects
                                          THEN [resets EXCEPT ![res.ret] = 0]
                                          ELSE resets, res.reset)
                   /\ released' = Recent
                   /\ onlyAcq' = IF onlyAcq = -1 THEN -1
                                 ELSE Min(NUM_OBJS + 2, onlyAcq + 1)
                   /\ hist' = Follow([name |-> "acquire", arg |-> NULL, ret |-> res.ret])
  /\ UNCHANGED <<NUM_OBJS, deleted, threadVars, pairVars>>

\* A call of release(obj).
release(obj) ==
  /\ pc = "live"
  /\ LET res  == release_impl(_available, _inUse, obj)
         call == [name |-> "release", arg |-> obj, ret |-> NULL, hit |-> res.hit,
                  full |-> NumHeld(_available) = 0,
                  again |-> (op.name = "release" /\ op.hit /\ op.arg = obj),
                  reset |-> res.reset, ub |-> res.ub]
     IN  \E outcome \in (IF res.ub = {} THEN {"live"} ELSE {"live", "crashed"}) :
           /\ pc' = outcome
           /\ op' = call
           /\ IF outcome = "crashed"
              THEN UNCHANGED <<_available, _inUse, held, resets, released,
                               onlyAcq, hist>>
              ELSE /\ _available' = res.available
                   /\ _inUse' = res.inUse
                   /\ held' = IF obj \in Objects
                              THEN [held EXCEPT ![obj] = Max(0, @ - 1)]
                              ELSE held
                   /\ resets' = AddResets(resets, res.reset)
                   /\ released' = IF res.hit /\ obj \in Objects /\ Len(Recent) < NUM_OBJS
                                  THEN Append(Recent,
                                              [obj |-> obj, front |-> _available[1] = NULL])
                                  ELSE Recent
                   /\ onlyAcq' = -1
                   /\ hist' = Follow([name |-> "release", arg |-> obj, ret |-> NULL])
  /\ UNCHANGED <<NUM_OBJS, deleted, threadVars, pairVars>>

\* The pool goes out of scope: ~Pool().
dtor ==
  /\ pc = "live"
  /\ pc' = "destroyed"
  /\ deleted' = dtor_impl(_available, _inUse)
  /\ op' = [name |-> "~Pool", arg |-> NULL, ret |-> NULL, hit |-> FALSE,
            full |-> NumHeld(_available) = 0, again |-> FALSE, reset |-> <<>>, ub |-> {}]
  /\ hist' = Off
  /\ UNCHANGED <<NUM_OBJS, _available, _inUse, held, resets, released, onlyAcq,
                 threadVars, pairVars>>

Next ==
  \/ acquire
  \/ \E obj \in Pointers : release(obj)
  \/ dtor

Spec == Init /\ [][Next]_vars

\* The slots hold nothing but null and the objects of the pool.
TypeOK ==
  /\ NUM_OBJS \in 0..MaxObjs
  /\ _available \in [1..NUM_OBJS -> {NULL} \cup Objects]
  /\ _inUse \in [1..NUM_OBJS -> {NULL} \cup Objects]
  /\ pc \in {"live", "destroyed", "crashed"}
  /\ held \in [Objects -> 0..2]
  /\ resets \in [Objects -> 0..2]
  /\ deleted \in [Objects -> 0..2]
  /\ onlyAcq \in -1..(NUM_OBJS + 2)

(***************************************************************************)
(* C1                                                                      *)
(***************************************************************************)

\* C1: from a freshly constructed pool of capacity NUM_OBJS, with acquire()
\* called repeatedly and no release call in between, each of the first
\* NUM_OBJS calls returns an object and call NUM_OBJS + 1 returns nullptr.
C1_FirstNAcquiresThenExhausted ==
  (op.name = "acquire" /\ onlyAcq >= 1) =>
     /\ onlyAcq <= NUM_OBJS => op.ret \in Objects
     /\ onlyAcq = NUM_OBJS + 1 => op.ret = NULL

\* C1 witness: a pool of capacity 2 or more whose call NUM_OBJS + 1 has
\* just reported exhaustion.
C1_Witness ==
  /\ NUM_OBJS >= 2
  /\ op.name = "acquire"
  /\ onlyAcq = NUM_OBJS + 1
  /\ op.ret = NULL

(***************************************************************************)
(* C2                                                                      *)
(***************************************************************************)

\* C2: acquire() never returns an object the caller still holds: no object
\* is out on two loans at once.
C2_NoAliasingOfLiveLoans ==
  \A r \in Objects : held[r] <= 1

\* C2 witness: after some release, acquire has just returned an object while
\* the caller holds another one.
C2_Witness ==
  /\ op.name = "acquire"
  /\ op.ret \in Objects
  /\ onlyAcq = -1
  /\ held[op.ret] = 1
  /\ \E r \in Objects \ {op.ret} : held[r] = 1

(***************************************************************************)
(* C3                                                                      *)
(***************************************************************************)

\* C3: release(x) with any x the pool does not track as lent out (an
\* available object, a foreign pointer or nullptr) leaves _available and
\* _inUse unchanged, invokes reset() on nothing and returns normally.
C3_ReleaseOfNotLentIsNoOp ==
  [][(op'.name = "release" /\ ~Lent(op'.arg)) =>
        /\ _available' = _available
        /\ _inUse' = _inUse
        /\ op'.reset = <<>>
        /\ op'.ub = {}
        /\ pc' = "live"]_vars

(***************************************************************************)
(* C4                                                                      *)
(***************************************************************************)

\* C4 as claimed: whenever a lent object r is released and acquire() is
\* called next with no other acquire call in between, that acquire returns r.
C4_ReleaseThenAcquireReturnsSame ==
  op.name = "acquire" =>
     \A k \in 1..Len(released) : op.ret = released[k].obj

\* C4 as amended: whenever a lent object r is released while the first slot
\* of _available is empty, and acquire() is called next with no other acquire
\* call in between, that acquire returns r.
C4_ReleasedIntoFirstSlotIsReacquired ==
  op.name = "acquire" =>
     \A k \in 1..Len(released) : released[k].front => op.ret = released[k].obj

\* C4 witness: a pool that was not exhausted; an object was released while
\* the first slot of _available was empty, another release followed, and the
\* acquire after them returned the first of the two.
C4_Witness ==
  /\ op.name = "acquire"
  /\ Len(released) >= 2
  /\ released[1].front
  /\ op.ret = released[1].obj
  /\ NumHeld(_available) >= 2

(***************************************************************************)
(* C5                                                                      *)
(***************************************************************************)

\* C5: when every object is lent out, releasing a lent object r and calling
\* acquire() directly afterwards returns r; and for capacity 2, after
\* acquire->a1, acquire->a2, acquire->null, release(a1), acquire->a4,
\* release(a2), acquire->a5: a4 = a1 and a5 = a2.
C5_ExhaustedReleaseThenAcquire ==
  /\ [][(/\ op.name = "release" /\ op.full /\ op.hit /\ op.arg \in Objects
         /\ op'.name = "acquire") => op'.ret = op.arg]_vars
  /\ []((NUM_OBJS = 2 /\ hist # Off /\ Len(hist) = Len(Scenario)) =>
           /\ hist[1].ret \in Objects
           /\ hist[2].ret \in Objects
           /\ hist[3].ret = NULL
           /\ hist[5].ret = hist[1].ret
           /\ hist[7].ret = hist[2].ret)

\* C5 witness: the scenario has run to its end on a pool of capacity 2, and
\* its last acquire, made directly after the release of a2 from the
\* exhausted pool, returned a2.
C5_Witness ==
  /\ NUM_OBJS = 2
  /\ hist # Off
  /\ Len(hist) = Len(Scenario)
  /\ op.name = "acquire"
  /\ op.ret = hist[2].ret
  /\ op.ret \in Objects
  /\ hist[1].ret # hist[2].ret
(***************************************************************************)
(* C6                                                                      *)
(***************************************************************************)

\* C6: reset() is invoked on an object only by a release call made on it
\* while it is lent out, and then exactly once: acquire() invokes reset() on
\* nothing, a release of a lent object r invokes it on r once and on no other
\* object, a release of anything else invokes it on no object, and when the
\* release of r has returned r has been reset exactly once since it was
\* acquired.
C6_ResetOncePerRelease ==
  [][/\ op'.name = "acquire" => op'.reset = <<>>
     /\ op'.name = "release" =>
           IF Lent(op'.arg)
           THEN /\ op'.reset = <<op'.arg>>
                /\ pc' = "live"
                /\ resets'[op'.arg] = 1
                /\ \A r \in Objects \ {op'.arg} : resets'[r] = resets[r]
           ELSE /\ \A k \in 1..Len(op'.reset) : op'.reset[k] \notin Objects
                /\ resets' = resets]_vars

\* C6 witness: the sixth call of the scenario, the release of the object
\* acquired second, has returned: the object was reset by it, once since it
\* was acquired.
C6_Witness ==
  /\ op.name = "release"
  /\ op.hit
  /\ op.arg \in Objects
  /\ op.reset = <<op.arg>>
  /\ resets[op.arg] = 1
  /\ hist # Off
  /\ Len(hist) = 6

(***************************************************************************)
(* C7                                                                      *)
(***************************************************************************)

\* C7: acquire() returns nullptr only when all NUM_OBJS objects are lent out
\* at the moment of the call, and every other pointer it returns is one of
\* the objects allocated by the constructor.
C7_ExhaustionOnlyWhenAllLent ==
  [][op'.name = "acquire" =>
       /\ op'.ret = NULL =>
             /\ NumHeld(_inUse) = NUM_OBJS
             /\ \A r \in Objects : Lent(r) /\ held[r] = 1
       /\ op'.ret # NULL => op'.ret \in Objects]_vars

\* C7 witness: after releases and acquires in turn, acquire has reported
\* exhaustion on a pool of capacity 2 or more with every object lent out.
C7_Witness ==
  /\ NUM_OBJS >= 2
  /\ op.name = "acquire"
  /\ op.ret = NULL
  /\ onlyAcq = -1
  /\ \A r \in Objects : Lent(r)

(***************************************************************************)
(* C8                                                                      *)
(***************************************************************************)

\* C8: a second release(r) made directly after a release(r) that found the
\* lent object r does not find r in _inUse and changes nothing: the arrays
\* stay as the first release left them and reset() has run on r once.
C8_DoubleReleaseIdempotent ==
  [][(/\ op.name = "release" /\ op.hit /\ op.arg \in Objects
      /\ op'.name = "release" /\ op'.arg = op.arg) =>
        /\ ~op'.hit
        /\ _available' = _available
        /\ _inUse' = _inUse
        /\ op'.reset = <<>>
        /\ resets' = resets
        /\ resets'[op.arg] = 1
        /\ held' = held
        /\ pc' = "live"]_vars

\* C8 witness: the second of two releases of the same object in a row has
\* returned; the object is available and was reset once.
C8_Witness ==
  /\ op.name = "release"
  /\ op.again
  /\ op.arg \in Objects
  /\ ~op.hit
  /\ Count(_available, op.arg) = 1
  /\ resets[op.arg] = 1

(***************************************************************************)
(* C9                                                                      *)
(***************************************************************************)

\* C9: when the pool is destroyed, every object allocated by the constructor
\* is deleted exactly once, lent out or not.
C9_EachObjectDeletedOnce ==
  pc = "destroyed" => \A r \in Objects : deleted[r] = 1

\* C9 witness: a pool destroyed after releases, with an object lent out and
\* another one available.
C9_Witness ==
  /\ pc = "destroyed"
  /\ onlyAcq = -1
  /\ \E r \in Objects : Count(_inUse, r) = 1 /\ deleted[r] = 1
  /\ \E r \in Objects : Count(_available, r) = 1 /\ deleted[r] = 1

(***************************************************************************)
(* C10                                                                     *)
(***************************************************************************)

\* C10: every object is held by exactly one non-empty slot of the two arrays
\* together: never by a slot of each, never by two slots of one, never by none.
C10_ExactlyOneSlotPerObject ==
  \A r \in Objects : Count(_available, r) + Count(_inUse, r) = 1

\* C10 witness: after releases, one object is lent out and another one is
\* available in a slot that is not the one the constructor gave it.
C10_Witness ==
  /\ pc = "live"
  /\ onlyAcq = -1
  /\ \E r \in Objects : Count(_inUse, r) = 1
  /\ \E i \in 1..NUM_OBJS : _available[i] \in Objects \ {i}
(***************************************************************************)
(* C11                                                                     *)
(***************************************************************************)

\* C11 as claimed: slot i of _available holds object i when that object is
\* free and is empty otherwise, and slot i of _inUse holds object i when that
\* object is lent out and is empty otherwise.
C11_SlotsIndexedByObject ==
  \A i \in Objects :
     /\ _available[i] = (IF held[i] = 0 THEN i ELSE NULL)
     /\ _inUse[i] = (IF held[i] = 0 THEN NULL ELSE i)

\* C11 as amended: the arrays are not indexed by object.  A free object is
\* held by exactly one slot of _available, whatever its index, and by no slot
\* of _inUse; a lent object is held by exactly one slot of _inUse, whatever
\* its index, and by no slot of _available; every other slot is empty.
C11_ArrayTellsStatusNotSlot ==
  /\ \A r \in Objects :
        IF held[r] = 0
        THEN Count(_available, r) = 1 /\ Count(_inUse, r) = 0
        ELSE Count(_available, r) = 0 /\ Count(_inUse, r) = 1
  /\ \A i \in 1..NUM_OBJS : _available[i] \in Objects \cup {NULL}
  /\ \A i \in 1..NUM_OBJS : _inUse[i] \in Objects \cup {NULL}
  /\ Count(_available, NULL) = NumHeld(_inUse)
  /\ Count(_inUse, NULL) = NumHeld(_available)

\* C11 witness: a lent object sits in a slot of _inUse, and a free object in
\* a slot of _available, that is not the slot the constructor gave it.
C11_Witness ==
  /\ pc = "live"
  /\ \E j \in 1..NUM_OBJS : _inUse[j] \in Objects \ {j} /\ held[_inUse[j]] = 1
  /\ \E i \in 1..NUM_OBJS : _available[i] \in Objects \ {i} /\ held[_available[i]] = 0

(***************************************************************************)
(* C12                                                                     *)
(***************************************************************************)

\* The status of object r as the two arrays give it.
Status(av, iu, r) ==
  IF Count(av, r) = 1 /\ Count(iu, r) = 0 THEN "Available"
  ELSE IF Count(av, r) = 0 /\ Count(iu, r) = 1 THEN "InUse"
  ELSE "Neither"

\* C12: an object changes status only from Available to InUse, by an acquire
\* call that returns it, and from InUse to Available, by a release call made
\* on it; no call changes the status of another object, and a release of an
\* Available object or of a pointer unknown to the pool changes no status.
C12_StatusTransitions ==
  [][/\ \A r \in Objects :
           /\ Status(_available', _inUse', r) \in {"Available", "InUse"}
           /\ Status(_available', _inUse', r) # Status(_available, _inUse, r) =>
                 \/ /\ Status(_available, _inUse, r) = "Available"
                    /\ Status(_available', _inUse', r) = "InUse"
                    /\ op'.name = "acquire"
                    /\ op'.ret = r
                 \/ /\ Status(_available, _inUse, r) = "InUse"
                    /\ Status(_available', _inUse', r) = "Available"
                    /\ op'.name = "release"
                    /\ op'.arg = r
     /\ (op'.name = "acquire" /\ op'.ret \in Objects) =>
           /\ Status(_available, _inUse, op'.ret) = "Available"
           /\ Status(_available', _inUse', op'.ret) = "InUse"
     /\ (op'.name = "release" /\ Lent(op'.arg)) =>
           Status(_available', _inUse', op'.arg) = "Available"
     /\ (op'.name = "release" /\ ~Lent(op'.arg)) =>
           \A r \in Objects :
              Status(_available', _inUse', r) = Status(_available, _inUse, r)]_vars

\* C12 witness: an object went from InUse to Available by the release that
\* has just returned, while another object stayed InUse.
C12_Witness ==
  /\ op.name = "release"
  /\ op.hit
  /\ op.arg \in Objects
  /\ Status(_available, _inUse, op.arg) = "Available"
  /\ \E r \in Objects \ {op.arg} : Status(_available, _inUse, r) = "InUse"

(***************************************************************************)
(* C13                                                                     *)
(***************************************************************************)

\* C13: a successful acquire() returns the object of the lowest non-empty
\* slot of _available, empties that slot and stores the object in the lowest
\* empty slot of _inUse; afterwards the object is in _inUse and not in
\* _available, _available has one non-empty slot less, every other slot of
\* both arrays is as before, and reset() was run on nothing.
C13_AcquireFrame ==
  [][(op'.name = "acquire" /\ op'.ret # NULL) =>
        /\ \E i \in 1..NUM_OBJS :
              /\ _available[i] # NULL
              /\ \A k \in 1..(i - 1) : _available[k] = NULL
              /\ op'.ret = _available[i]
              /\ _available'[i] = NULL
              /\ \A k \in (1..NUM_OBJS) \ {i} : _available'[k] = _available[k]
        /\ \E j \in 1..NUM_OBJS :
              /\ _inUse[j] = NULL
              /\ \A k \in 1..(j - 1) : _inUse[k] # NULL
              /\ _inUse'[j] = op'.ret
              /\ \A k \in (1..NUM_OBJS) \ {j} : _inUse'[k] = _inUse[k]
        /\ Count(_inUse', op'.ret) = 1
        /\ Count(_available', op'.ret) = 0
        /\ NumHeld(_available') = NumHeld(_available) - 1
        /\ op'.reset = <<>>
        /\ op'.ub = {}
        /\ pc' = "live"]_vars

\* C13 witness: after releases, acquire has just returned an object that was
\* neither in the first slot of _available nor went to the first slot of
\* _inUse.
C13_Witness ==
  /\ op.name = "acquire"
  /\ op.ret \in Objects
  /\ onlyAcq = -1
  /\ NUM_OBJS >= 2
  /\ _inUse[1] \in Objects \ {op.ret}
  /\ \E j \in 2..NUM_OBJS : _inUse[j] = op.ret /\ op.ret # j

(***************************************************************************)
(* C14                                                                     *)
(***************************************************************************)

\* C14: whenever acquire() finds an available object, _inUse has an empty
\* slot, and whenever release(x) finds x in _inUse (x any pointer, foreign
\* and null ones included), _available has an empty slot: no call stores
\* through the end iterator of an array.
C14_DestinationSlotAlwaysFound ==
  [][/\ (op'.name = "acquire" /\ NumHeld(_available) > 0) =>
           Count(_inUse, NULL) > 0
     /\ (op'.name = "release" /\ op'.hit) =>
           Count(_available, NULL) > 0
     /\ "end_write" \notin op'.ub]_vars

(***************************************************************************)
(* C15                                                                     *)
(***************************************************************************)

\* C15: acquire() on an exhausted pool returns nullptr and leaves both
\* arrays and every object as they were, however often it is repeated; and
\* the acquire that follows a release of a lent object succeeds.
C15_ExhaustedAcquire ==
  /\ [][(op'.name = "acquire" /\ NumHeld(_available) = 0) =>
           /\ op'.ret = NULL
           /\ _available' = _available
           /\ _inUse' = _inUse
           /\ op'.reset = <<>>
           /\ resets' = resets
           /\ held' = held
           /\ op'.ub = {}
           /\ pc' = "live"]_vars
  /\ []((op.name = "acquire" /\ Len(released) > 0) => op.ret \in Objects)

\* C15 witness: on a pool of capacity 2, acquire failed on the exhausted
\* pool, the first object was released, and the next acquire returned it.
C15_Witness ==
  /\ NUM_OBJS = 2
  /\ hist # Off
  /\ Len(hist) = 5
  /\ hist[3].ret = NULL
  /\ op.name = "acquire"
  /\ op.ret = hist[1].ret
  /\ op.ret \in Objects
(***************************************************************************)
(* Calls made by two threads, statement by statement.  Without a mutex      *)
(* (lock = "none") the statements of the two calls interleave freely; with  *)
(* the caller's mutex a call starts only when no other call is under way.   *)
(***************************************************************************)

\* Mutant: the slot is not cleared.
ClearSlot_skipped(arr, i) == arr

\* *iter = nullptr (lines 52 and 99)
ClearSlot(arr, i) == [arr EXCEPT ![i] = NULL]

\* *iter = mem (lines 62 and 107)
StoreSlot(arr, i, mem) == [arr EXCEPT ![i] = mem]

\* The state before any thread has called: a constructed pool, and callers
\* that either share a mutex or use none.
InitRace ==
  /\ NUM_OBJS \in 0..MaxRaceObjs
  /\ _available = [i \in 1..NUM_OBJS |-> i]
  /\ _inUse = [i \in 1..NUM_OBJS |-> NULL]
  /\ pc = "live"
  /\ deleted = [r \in Objects |-> 0]
  /\ op = [name |-> "Pool", arg |-> NULL, ret |-> NULL, hit |-> FALSE,
           full |-> FALSE, again |-> FALSE, reset |-> <<>>, ub |-> {}]
  /\ held = [r \in Objects |-> 0]
  /\ resets = [r \in Objects |-> 0]
  /\ released = <<>>
  /\ onlyAcq = 0
  /\ hist = <<>>
  /\ thr = [t \in Threads |-> Idle]
  /\ lock \in {"none", "free"}
  /\ ms_available = <<>>
  /\ ms_inUse = <<>>
  /\ handles = <<>>
  /\ clean = TRUE

\* Thread t once its call has returned: its locals are gone.
Returned(t, has) == [Idle EXCEPT !.has = has, !.calls = thr[t].calls]

\* The mutex when thread t enters a call, and when it leaves it.
Locked(t) == IF lock = "none" THEN "none" ELSE t

Unlocked == IF lock = "none" THEN "none" ELSE "free"

\* Thread t calls acquire().
CallAcquire(t) ==
  /\ pc = "live"
  /\ thr[t].pc = "idle"
  /\ thr[t].calls < MaxThreadCalls
  /\ lock \in {"none", "free"}
  /\ lock' = Locked(t)
  /\ thr' = [thr EXCEPT ![t].pc = "a_find", ![t].calls = @ + 1]
  /\ UNCHANGED <<NUM_OBJS, _available, _inUse, pc, callVars, pairVars>>

\* Thread t calls release(obj) with an object it holds.
CallRelease(t, obj) ==
  /\ pc = "live"
  /\ thr[t].pc = "idle"
  /\ obj \in thr[t].has
  /\ thr[t].calls < MaxThreadCalls
  /\ lock \in {"none", "free"}
  /\ lock' = Locked(t)
  /\ thr' = [thr EXCEPT ![t].pc = "r_find", ![t].obj = obj, ![t].has = @ \ {obj},
                        ![t].calls = @ + 1]
  /\ UNCHANGED <<NUM_OBJS, _available, _inUse, pc, callVars, pairVars>>

\* acquire, lines 37-45: the search of _available; nullptr is returned when
\* it finds nothing.
AcqFind(t) ==
  /\ pc = "live"
  /\ thr[t].pc = "a_find"
  /\ LET iter == FindNonNull(_available) IN
     IF iter = End(_available)
     THEN /\ thr' = [thr EXCEPT ![t] = Returned(t, thr[t].has)]
          /\ lock' = Unlocked
     ELSE /\ thr' = [thr EXCEPT ![t].pc = "a_read", ![t].iter = iter]
          /\ lock' = lock
  /\ UNCHANGED <<NUM_OBJS, _available, _inUse, pc, callVars, pairVars>>

\* acquire, line 49: OBJ* mem{*iter}
AcqRead(t) ==
  /\ pc = "live"
  /\ thr[t].pc = "a_read"
  /\ thr' = [thr EXCEPT ![t].pc = "a_clear", ![t].mem = _available[thr[t].iter]]
  /\ UNCHANGED <<NUM_OBJS, _available, _inUse, pc, callVars, pairVars, lock>>

\* acquire, line 52: *iter = nullptr
AcqClear(t) ==
  /\ pc = "live"
  /\ thr[t].pc = "a_clear"
  /\ _available' = ClearSlot(_available, thr[t].iter)
  /\ thr' = [thr EXCEPT ![t].pc = "a_find2"]
  /\ UNCHANGED <<NUM_OBJS, _inUse, pc, callVars, pairVars, lock>>

\* acquire, line 57: the search of _inUse for an empty slot
AcqFind2(t) ==
  /\ pc = "live"
  /\ thr[t].pc = "a_find2"
  /\ thr' = [thr EXCEPT ![t].pc = "a_write", ![t].iter = Find(_inUse, NULL)]
  /\ UNCHANGED <<NUM_OBJS, _available, _inUse, pc, callVars, pairVars, lock>>

\* acquire, lines 62-65: *iter = mem; return mem.  A store through
\* std::end(_inUse) lands outside both arrays or aborts the run.
AcqWrite(t) ==
  /\ pc = "live"
  /\ thr[t].pc = "a_write"
  /\ \E outcome \in (IF thr[t].iter = End(_inUse) THEN {"live", "crashed"} ELSE {"live"}) :
        /\ pc' = outcome
        /\ _inUse' = IF thr[t].iter = End(_inUse) THEN _inUse
                     ELSE StoreSlot(_inUse, thr[t].iter, thr[t].mem)
        /\ thr' = [thr EXCEPT ![t] = Returned(t,
                                 IF thr[t].mem = NULL \/ outcome = "crashed"
                                 THEN thr[t].has ELSE thr[t].has \cup {thr[t].mem})]
  /\ lock' = Unlocked
  /\ UNCHANGED <<NUM_OBJS, _available, callVars, pairVars>>

\* release, lines 78-92: the search of _inUse for obj; the call returns when
\* obj is not found, else obj->reset() is run.
RelFind(t) ==
  /\ pc = "live"
  /\ thr[t].pc = "r_find"
  /\ LET iter == Find(_inUse, thr[t].obj) IN
     IF iter = End(_inUse)
     THEN /\ thr' = [thr EXCEPT ![t] = Returned(t, thr[t].has)]
          /\ lock' = Unlocked
     ELSE /\ thr' = [thr EXCEPT ![t].pc = "r_read", ![t].iter = iter]
          /\ lock' = lock
  /\ UNCHANGED <<NUM_OBJS, _available, _inUse, pc, callVars, pairVars>>

\* release, line 96: OBJ* mem{*iter}
RelRead(t) ==
  /\ pc = "live"
  /\ thr[t].pc = "r_read"
  /\ thr' = [thr EXCEPT ![t].pc = "r_clear", ![t].mem = _inUse[thr[t].iter]]
  /\ UNCHANGED <<NUM_OBJS, _available, _inUse, pc, callVars, pairVars, lock>>

\* release, line 99: *iter = nullptr
RelClear(t) ==
  /\ pc = "live"
  /\ thr[t].pc = "r_clear"
  /\ _inUse' = ClearSlot(_inUse, thr[t].iter)
  /\ thr' = [thr EXCEPT ![t].pc = "r_find2"]
  /\ UNCHANGED <<NUM_OBJS, _available, pc, callVars, pairVars, lock>>

\* release, line 104: the search of _available for an empty slot
RelFind2(t) ==
  /\ pc = "live"
  /\ thr[t].pc = "r_find2"
  /\ thr' = [thr EXCEPT ![t].pc = "r_write", ![t].iter = Find(_available, NULL)]
  /\ UNCHANGED <<NUM_OBJS, _available, _inUse, pc, callVars, pairVars, lock>>

\* release, line 107: *iter = mem.  A store through std::end(_available)
\* lands on _inUse[0] or aborts the run.
RelWrite(t) ==
  /\ pc = "live"
  /\ thr[t].pc = "r_write"
  /\ \E outcome \in (IF thr[t].iter = End(_available) THEN {"live", "crashed"}
                     ELSE {"live"}) :
        /\ pc' = outcome
        /\ IF thr[t].iter = End(_available)
           THEN /\ _available' = _available
                /\ _inUse' = IF outcome = "live" /\ NUM_OBJS > 0
                             THEN StoreSlot(_inUse, 1, thr[t].mem) ELSE _inUse
           ELSE /\ _available' = StoreSlot(_available, thr[t].iter, thr[t].mem)
                /\ _inUse' = _inUse
  /\ thr' = [thr EXCEPT ![t] = Returned(t, thr[t].has)]
  /\ lock' = Unlocked
  /\ UNCHANGED <<NUM_OBJS, callVars, pairVars>>

NextRace ==
  \E t \in Threads :
     \/ CallAcquire(t)
     \/ \E obj \in Objects : CallRelease(t, obj)
     \/ AcqFind(t)
     \/ AcqRead(t)
     \/ AcqClear(t)
     \/ AcqFind2(t)
     \/ AcqWrite(t)
     \/ RelFind(t)
     \/ RelRead(t)
     \/ RelClear(t)
     \/ RelFind2(t)
     \/ RelWrite(t)

SpecRace == InitRace /\ [][NextRace]_vars

(***************************************************************************)
(* C16                                                                     *)
(***************************************************************************)

\* No thread is inside a call.
Quiet == \A t \in Threads : thr[t].pc = "idle"

\* Two threads hold the same object.
SharedLoan == \E r \in Objects : \A t \in Threads : r \in thr[t].has

\* C16, serialized half: when every acquire and release call runs under the
\* caller's mutex, no interleaving of the calls of the threads makes two
\* threads hold the same object, and between calls every object is in
\* exactly one slot of the two arrays, in _inUse exactly when a thread
\* holds it.
C16_SerializedCallsKeepInvariant ==
  lock # "none" =>
     /\ ~SharedLoan
     /\ Quiet =>
           \A r \in Objects :
              /\ Count(_available, r) + Count(_inUse, r) = 1
              /\ Count(_inUse, r) = 1 <=> \E t \in Threads : r \in thr[t].has

\* C16, unserialized half (witness): without a mutex the statements of two
\* acquire calls interleave so that both calls have returned the same
\* object, which is then in two slots of _inUse.
C16_Witness ==
  /\ lock = "none"
  /\ Quiet
  /\ \E r \in Objects :
        /\ \A t \in Threads : r \in thr[t].has
        /\ Count(_inUse, r) = 2
(***************************************************************************)
(* Pool<OBJ, NUM_OBJS> of src/src/MultisetPool.h, run side by side with the *)
(* array pool on the same calls.  A std::multiset<OBJ*> is the sequence of  *)
(* its elements in its own order, the order of the pointer values; the      *)
(* objects of the multiset pool are numbered in that order, nullptr first.  *)
(* A release call is given, in each pool, the pointer that the pool         *)
(* returned from the same acquire call.                                     *)
(***************************************************************************)

\* std::multiset::erase(iterator): the element at position i is removed.
Erase(ms, i) == SubSeq(ms, 1, i - 1) \o SubSeq(ms, i + 1, Len(ms))

\* std::multiset::insert(v): v is put behind the elements that are not larger.
Insert(ms, v) ==
  LET k == Cardinality({i \in 1..Len(ms) : ms[i] <= v})
  IN  SubSeq(ms, 1, k) \o <<v>> \o SubSeq(ms, k + 1, Len(ms))

\* Mutant: the object is not inserted into _inUse (line 61 left out).
ms_acquire_noInsert(av, iu) ==
  LET iter == FindNonNull(av) IN
  IF iter = End(av)
  THEN [available |-> av, inUse |-> iu, ret |-> NULL, reset |-> <<>>, ub |-> {}]
  ELSE LET mem   == av[iter]
           av1   == Insert(Erase(av, iter), NULL)
           iter2 == Find(iu, NULL)
       IN  [available |-> av1,
            inUse     |-> IF iter2 # End(iu) THEN Erase(iu, iter2) ELSE iu,
            ret       |-> mem,
            reset     |-> <<>>,
            ub        |-> IF iter2 = End(iu) THEN {"end_erase"} ELSE {}]

\* OBJ* Pool::acquire() of MultisetPool.h, as a function of the two
\* multisets.  "end_erase" is _inUse.erase(std::end(_inUse)) of line 60,
\* undefined behaviour that erases nothing or aborts the run.
ms_acquire_impl(av, iu) ==
  LET iter == FindNonNull(av) IN
  IF iter = End(av)
  THEN [available |-> av, inUse |-> iu, ret |-> NULL, reset |-> <<>>, ub |-> {}]
  ELSE LET mem   == av[iter]
           av1   == Insert(Erase(av, iter), NULL)
           iter2 == Find(iu, NULL)
       IN  [available |-> av1,
            inUse     |-> Insert(IF iter2 # End(iu) THEN Erase(iu, iter2) ELSE iu, mem),
            ret       |-> mem,
            reset     |-> <<>>,
            ub        |-> IF iter2 = End(iu) THEN {"end_erase"} ELSE {}]

\* void Pool::release(OBJ* obj) of MultisetPool.h, as a function of the two
\* multisets and the argument.  "null_reset" is obj->reset() of line 91
\* through a null obj; "end_erase" is _available.erase(std::end(_available))
\* of line 105.
ms_release_impl(av, iu, obj) ==
  LET iter == Find(iu, obj) IN
  IF iter = End(iu)
  THEN [available |-> av, inUse |-> iu, hit |-> FALSE, reset |-> <<>>, ub |-> {}]
  ELSE LET mem   == iu[iter]
           iu1   == Insert(Erase(iu, iter), NULL)
           iter2 == Find(av, NULL)
       IN  [available |-> Insert(IF iter2 # End(av) THEN Erase(av, iter2) ELSE av, mem),
            inUse     |-> iu1,
            hit       |-> TRUE,
            reset     |-> <<obj>>,
            ub        |-> (IF obj = NULL THEN {"null_reset"} ELSE {})
                          \cup (IF iter2 = End(av) THEN {"end_erase"} ELSE {})]

\* The calls of the test case: acquire obj1, acquire obj2, release(obj1),
\* acquire obj3, acquire obj4, release(obj2), acquire obj5.  of: the acquire
\* call whose result is released.
TestScenario ==
  << [name |-> "acquire", of |-> 0], [name |-> "acquire", of |-> 0],
     [name |-> "release", of |-> 1], [name |-> "acquire", of |-> 0],
     [name |-> "acquire", of |-> 0], [name |-> "release", of |-> 2],
     [name |-> "acquire", of |-> 0] >>

\* hist after one more call on the two pools: the call is kept while the
\* calls follow the test case; h is the acquire call whose result is released.
PairFollow(name, h) ==
  IF /\ hist # Off
     /\ Len(hist) < Len(TestScenario)
     /\ TestScenario[Len(hist) + 1].name = name
     /\ TestScenario[Len(hist) + 1].of = h
  THEN Append(hist, [name |-> name, arg |-> h, ret |-> NULL])
  ELSE Off

\* Pool::Pool() of both headers: the state after the construction of an
\* array pool and of a multiset pool of the same capacity.
InitPair ==
  /\ NUM_OBJS \in 0..MaxObjs
  /\ _available = [i \in 1..NUM_OBJS |-> i]
  /\ _inUse = [i \in 1..NUM_OBJS |-> NULL]
  /\ ms_available = [i \in 1..NUM_OBJS |-> i]
  /\ ms_inUse = [i \in 1..NUM_OBJS |-> NULL]
  /\ handles = <<>>
  /\ clean = TRUE
  /\ pc = "live"
  /\ deleted = [r \in Objects |-> 0]
  /\ op = [name |-> "Pool", arg |-> NULL, ret |-> NULL, hit |-> FALSE,
           full |-> FALSE, again |-> FALSE, reset |-> <<>>, ub |-> {}]
  /\ held = [r \in Objects |-> 0]
  /\ resets = [r \in Objects |-> 0]
  /\ released = <<>>
  /\ onlyAcq = 0
  /\ hist = <<>>
  /\ thr = [t \in Threads |-> Idle]
  /\ lock = "none"

\* acquire() is called on both pools.
PairAcquire ==
  /\ pc = "live"
  /\ Len(handles) < MaxPairCalls
  /\ LET ra == acquire_impl(_available, _inUse)
         rm == ms_acquire_impl(ms_available, ms_inUse)
     IN  \E outcome \in (IF ra.ub \cup rm.ub = {} THEN {"live"} ELSE {"live", "crashed"}) :
           /\ pc' = outcome
           /\ _available' = ra.available
           /\ _inUse' = ra.inUse
           /\ ms_available' = rm.available
           /\ ms_inUse' = rm.inUse
           /\ handles' = Append(handles, [a |-> ra.ret, m |-> rm.ret,
                                          out |-> ra.ret # NULL /\ rm.ret # NULL])
  /\ clean' = clean
  /\ hist' = PairFollow("acquire", 0)
  /\ UNCHANGED <<NUM_OBJS, deleted, op, held, resets, released, onlyAcq, threadVars>>

\* release is called on both pools with what acquire call h returned: an
\* instance that is lent out or was released already.
PairRelease(h) ==
  /\ pc = "live"
  /\ h \in 1..Len(handles)
  /\ handles[h].a # NULL
  /\ handles[h].m # NULL
  /\ LET ra == release_impl(_available, _inUse, handles[h].a)
         rm == ms_release_impl(ms_available, ms_inUse, handles[h].m)
     IN  \E outcome \in (IF ra.ub \cup rm.ub = {} THEN {"live"} ELSE {"live", "crashed"}) :
           /\ pc' = outcome
           /\ _available' = ra.available
           /\ _inUse' = ra.inUse
           /\ ms_available' = rm.available
           /\ ms_inUse' = rm.inUse
           /\ clean' = (clean /\ (handles[h].out \/ (~ra.hit /\ ~rm.hit)))
  /\ handles' = [handles EXCEPT ![h].out = FALSE]
  /\ hist' = PairFollow("release", h)
  /\ UNCHANGED <<NUM_OBJS, deleted, op, held, resets, released, onlyAcq, threadVars>>

NextPair ==
  \/ PairAcquire
  \/ \E h \in 1..MaxPairCalls : PairRelease(h)

SpecPair == InitPair /\ [][NextPair]_vars

(***************************************************************************)
(* C17                                                                     *)
(***************************************************************************)

\* The two pools agree: every acquire call so far succeeded in both or in
\* neither, and they have as many available and as many lent instances.
PoolsAgree ==
  /\ \A h \in 1..Len(handles) : (handles[h].a = NULL) <=> (handles[h].m = NULL)
  /\ NumHeld(_available) = NumHeld(ms_available)
  /\ NumHeld(_inUse) = NumHeld(ms_inUse)

\* The test case has run to its end on pools of capacity 2 and every
\* REQUIRE of it held on pool p (lines 31-46).
TestPasses(p) ==
  (NUM_OBJS = 2 /\ hist # Off /\ Len(hist) = Len(TestScenario)) =>
     /\ handles[1][p] # NULL
     /\ handles[2][p] # NULL
     /\ handles[3][p] = handles[1][p]
     /\ handles[4][p] = NULL
     /\ handles[5][p] = handles[2][p]

\* C17 as claimed: on the same acquire calls and release calls of
\* corresponding lent or already released instances, the two pools agree
\* after every call, and the test case passes for both.
C17_PoolsEquivalent ==
  /\ PoolsAgree
  /\ TestPasses("a")
  /\ TestPasses("m")

\* C17 as amended: the two pools agree after every call as long as every
\* release call is given an instance that is lent out under the loan it
\* comes from, or one that is available in both pools; and the test case
\* passes for both.
C17_PoolsEquivalentOnLiveLoans ==
  /\ clean => PoolsAgree
  /\ TestPasses("a")
  /\ TestPasses("m")

\* C17 witness: the test case has run to its end on both pools of capacity
\* 2: its last acquire returned, in each pool, what the second one returned.
C17_Witness ==
  /\ NUM_OBJS = 2
  /\ hist # Off
  /\ Len(hist) = Len(TestScenario)
  /\ clean
  /\ handles[5].a = handles[2].a
  /\ handles[5].m = handles[2].m
  /\ handles[5].a \in Objects
  /\ handles[5].m \in Objects
  /\ handles[4].a = NULL
  /\ handles[4].m = NULL

====
